---- MODULE Spec2Model ----
(***************************************************************************)
(* Cache-aside layer of the property listings catalog.                     *)
(*                                                                         *)
(*   properties/models.py   Property (the Catalog Store's record)          *)
(*   properties/signals.py  post_save / post_delete invalidation handlers  *)
(*   properties/utils.py    get_all_properties, get_country_code,          *)
(*                          get_properties_by_filters,                     *)
(*                          update_property_favorite_status,               *)
(*                          clear_properties_cache,                        *)
(*                          import_properties_from_csv                     *)
(*   properties/views.py    property_list behind cache_page(60 * 15)       *)
(*                          get_redis_cache_metrics,                       *)
(*                          monitor_cache_performance                      *)
(*                                                                         *)
(* Text values are sequences of one-character strings so that lower() and  *)
(* icontains are computed, not assumed.  Times are seconds.  A ratio is an  *)
(* integer count of its last decimal place: hit_ratio in ten-thousandths,  *)
(* hit_ratio_percentage in hundredths of a percent.                        *)
(***************************************************************************)
EXTENDS Integers, Sequences, FiniteSets, TLC

VARIABLES
    store,      \* Catalog Store: the set of Property rows
    nextId,     \* next id the store's auto field assigns
    cache,      \* Key-Value Cache entry under the key 'all_properties'
    pageCache,  \* Key-Value Cache entry cache_page keeps for property_list
    ccCache,    \* Key-Value Cache entries under 'country_code_<name.lower()>'
    now,        \* wall clock, seconds
    last,       \* what the last completed call did and returned
    rpc,        \* concurrent readers: position inside get_all_properties
    rval,       \* concurrent readers: local variable `properties`
    wpc,        \* concurrent writers: position inside save()/delete()
    filters,    \* argument of get_properties_by_filters
    result,     \* queryset get_properties_by_filters returned
    info,       \* the cache server's INFO counters
    metrics     \* what the last metrics call read and returned

vars == <<store, nextId, cache, pageCache, ccCache, now, last, rpc, rval, wpc,
          filters, result, info, metrics>>

----------------------------------------------------------------------------
(* Bounds of the model *)

MaxProps == 1          \* ids the store hands out
MaxTicks == 2          \* clock steps of TickStep seconds
MaxRows == 2           \* rows of an imported CSV file
MaxHalfDays == 2       \* clock steps of HalfDay seconds
MaxFilterProps == 2    \* rows of the catalog a filter runs against
MaxActive == 2         \* keys present in a filters dict
MaxTraffic == 2        \* batches of cache reads the INFO counters count

TickStep == 60 * 30    \* one clock step: half the snapshot's TTL

HalfDay == 60 * 60 * 12   \* one long clock step: half the country code's TTL

----------------------------------------------------------------------------
(* Program constants *)

\* A timeout given in minutes where seconds are meant, times sixty too long.
SixtyHours == 3600 * 60

AllPropertiesTTL == 3600

CountryCodeTTL == 60 * 60 * 24

PageTTL == 60 * 15

PROPERTY_CATEGORIES == {"house", "apartment", "hotel", "villa", "cottage"}

----------------------------------------------------------------------------
(* Text *)

Range(s) == {s[i] : i \in 1..Len(s)}

LowerChar(c) ==
    CASE c = "S" -> "s"
      [] c = "P" -> "p"
      [] c = "F" -> "f"
      [] c = "R" -> "r"
      [] c = "E" -> "e"
      [] c = "A" -> "a"
      [] c = "B" -> "b"
      [] OTHER -> c

UpperChar(c) ==
    CASE c = "s" -> "S"
      [] c = "p" -> "P"
      [] c = "f" -> "F"
      [] c = "r" -> "R"
      [] c = "e" -> "E"
      [] c = "a" -> "A"
      [] c = "b" -> "B"
      [] OTHER -> c

Lower(s) == [i \in 1..Len(s) |-> LowerChar(s[i])]

Upper(s) == [i \in 1..Len(s) |-> UpperChar(s[i])]

----------------------------------------------------------------------------
(* Property rows *)

NewProperty(id, title, price, t) ==
    [id |-> id, title |-> title, description |-> <<>>,
     price_per_night |-> price, bedrooms |-> 1, bathrooms |-> 1, guests |-> 2,
     country |-> <<"S", "p">>, country_code |-> <<"E", "S">>,
     category |-> "house", favorited |-> FALSE, created_at |-> t]

Titles == {<<"a">>}

Prices == {100, 150}

\* Property.Meta.ordering / order_by('-created_at'): created_at descending;
\* the order among rows of equal created_at is whatever the database gives.
IsOrdered(s) ==
    \A i, j \in 1..Len(s) : i < j => s[i].created_at >= s[j].created_at

Snapshots(rows) ==
    {s \in [1..Cardinality(rows) -> rows] : Range(s) = rows /\ IsOrdered(s)}

----------------------------------------------------------------------------
(* Key-Value Cache: one entry *)

NoEntry == [present |-> FALSE, value |-> <<>>, setAt |-> 0, expires |-> 0]

\* cache.set(key, value, timeout)
CacheSet(value, t, ttl) ==
    [present |-> TRUE, value |-> value, setAt |-> t, expires |-> t + ttl]

\* cache.get(key): the entry, or NoEntry for None (absent or expired)
CacheGet(entry, t) ==
    IF entry.present /\ t < entry.expires THEN entry ELSE NoEntry

\* the cache drops an entry when its TTL has run out
Expire(entry, t) == CacheGet(entry, t)

----------------------------------------------------------------------------
(* Write path.  A write threads a record w through the calls it makes:      *)
(*   store, nextId, cache   the state the call works on                     *)
(*   commits                rows written to the Catalog Store               *)
(*   deletes                cache.delete('all_properties') calls issued     *)
(*   logged                 faults written to the log and swallowed         *)
(*   err                    the exception that is propagating, "" for none  *)
(*   imported, rowErrors    import_properties_from_csv's counters           *)

Begin(st, nid, c) ==
    [store |-> st, nextId |-> nid, cache |-> c, commits |-> 0, deletes |-> 0,
     logged |-> 0, err |-> "", imported |-> 0, rowErrors |-> 0]

\* A delete that treats a missing key as an error.
DeleteMissingRaises(w, cacheOk) ==
    IF ~cacheOk THEN [w EXCEPT !.deletes = @ + 1, !.err = "CacheUnavailable"]
    ELSE IF w.cache.present THEN [w EXCEPT !.cache = NoEntry, !.deletes = @ + 1]
    ELSE [w EXCEPT !.deletes = @ + 1, !.err = "KeyError"]

\* cache.delete('all_properties'); raises when the cache is unreachable
cache_delete(w, cacheOk) ==
    IF cacheOk
    THEN [w EXCEPT !.cache = NoEntry, !.deletes = @ + 1]
    ELSE [w EXCEPT !.deletes = @ + 1, !.err = "CacheUnavailable"]

\* try: cache.delete(...)  except Exception as e: logger.error(...)
Swallow(w) ==
    IF w.err # "" THEN [w EXCEPT !.err = "", !.logged = @ + 1] ELSE w

\* A handler that is never connected to the signal.
NotConnected(w, cacheOk) == w

clear_properties_cache_on_save(w, cacheOk) == Swallow(cache_delete(w, cacheOk))

clear_properties_cache_on_delete(w, cacheOk) == Swallow(cache_delete(w, cacheOk))

\* Model.save(): write the row (insert, or update by id), then post_save
Property_save(w, p, cacheOk) ==
    clear_properties_cache_on_save(
        [w EXCEPT !.store = {q \in @ : q.id # p.id} \cup {p},
                  !.nextId = IF p.id >= @ THEN p.id + 1 ELSE @,
                  !.commits = @ + 1],
        cacheOk)

\* Model.delete(): remove the row, then post_delete
Property_delete(w, p, cacheOk) ==
    clear_properties_cache_on_delete(
        [w EXCEPT !.store = @ \ {p}, !.commits = @ + 1], cacheOk)

\* validate_property_data(data) for a dict holding every field: the keys of
\* `errors`; the call raises ValidationError unless the set is empty
validate_property_data(data) ==
    {field \in {"price_per_night"} : data[field] <= 0}
        \cup {field \in {"bedrooms", "bathrooms", "guests"} : data[field] < 0}
        \cup {field \in {"category"} : data[field] \notin PROPERTY_CATEGORIES}

\* An update that clears the cache before it looks the row up.
InvalidateThenLookup(w, property_id, favorite, cacheOk) ==
    LET cleared == cache_delete(w, cacheOk)
        found == {p \in w.store : p.id = property_id}
    IN
    IF cleared.err # "" THEN cleared
    ELSE IF found = {} THEN [cleared EXCEPT !.err = "ValueError"]
    ELSE LET p == CHOOSE q \in found : TRUE IN
         Property_save(cleared, [p EXCEPT !.favorited = favorite], cacheOk)

update_property_favorite_status(w, property_id, favorite, cacheOk) ==
    LET found == {p \in w.store : p.id = property_id} IN
    IF found = {}
    THEN [w EXCEPT !.err = "ValueError"]
    ELSE LET p == CHOOSE q \in found : TRUE
             saved == Property_save(w, [p EXCEPT !.favorited = favorite], cacheOk)
         IN  cache_delete(saved, cacheOk)

clear_properties_cache(w, cacheOk) == cache_delete(w, cacheOk)

\* One CSV row.  The columns the model varies are title and price_per_night;
\* `parses` is whether float(row['price_per_night']) succeeds (the price of
\* a row that does not parse is never read), `blank` whether the column is
\* empty.  The other columns hold the values NewProperty gives, country_code
\* included, so the row never calls get_country_code.
CsvRows ==
    [title : Titles, price_per_night : Prices, parses : {TRUE}, blank : {FALSE}]
        \cup [title : Titles, price_per_night : {0}, parses : {FALSE},
               blank : {FALSE}]

\* rows whose price_per_night column is '0', which float() parses
ZeroPriceRows ==
    [title : Titles, price_per_night : {0}, parses : {TRUE}, blank : {FALSE}]

\* rows whose price_per_night column is empty
BlankPriceRows ==
    [title : Titles, price_per_night : {0}, parses : {FALSE}, blank : {TRUE}]

\* the required-fields loop: one error for each required column that is
\* empty; its `continue` goes on with the next field, not the next row
MissingFields(w, row) ==
    IF row.blank THEN [w EXCEPT !.rowErrors = @ + 1] ELSE w

\* One row: the required-fields loop, then
\* Property.objects.update_or_create(title=..., defaults={...}), both inside
\* the row's try/except
ImportRow(w0, row, cacheOk, t) ==
    LET w == MissingFields(w0, row)
        matches == {p \in w.store : p.title = row.title}
    IN
    IF ~row.parses \/ Cardinality(matches) > 1
    THEN [w EXCEPT !.rowErrors = @ + 1]
    ELSE IF matches = {}
    THEN [Property_save(w, NewProperty(w.nextId, row.title, row.price_per_night, t),
                        cacheOk)
            EXCEPT !.imported = @ + 1]
    ELSE LET p == CHOOSE q \in matches : TRUE IN
         Property_save(w, NewProperty(p.id, row.title, row.price_per_night,
                                      p.created_at), cacheOk)

RECURSIVE ImportRows(_, _, _, _)
ImportRows(w, rows, cacheOk, t) ==
    IF rows = <<>> THEN w
    ELSE ImportRows(ImportRow(w, Head(rows), cacheOk, t), Tail(rows), cacheOk, t)

import_properties_from_csv(w, fileOk, rows, cacheOk, t) ==
    LET done == IF fileOk THEN ImportRows(w, rows, cacheOk, t)
                ELSE [w EXCEPT !.rowErrors = @ + 1]
    IN  clear_properties_cache(done, cacheOk)

----------------------------------------------------------------------------
(* Read path.  A read returns a record:                                     *)
(*   cache   the entry after the call                                       *)
(*   err     the exception raised, "" when the call returned                *)
(*   ret     the value returned                                             *)
(*   hit     the value came from the cache                                  *)
(*   age     seconds since the returned entry was set                       *)
(*   loads   queries run against the Catalog Store (get_country_code:       *)
(*           requests sent to the countries API)                            *)
(*   none    the call returned None                                         *)

Raised(entry, e) ==
    [cache |-> entry, err |-> e, ret |-> <<>>, hit |-> FALSE, age |-> 0, loads |-> 0,
     none |-> FALSE]

\* A loader that hides a failed query behind an empty list.
QueryAllSwallowed(snap, fault) == [err |-> "", rows |-> IF fault = "load" THEN <<>> ELSE snap]

\* Property.objects.all().order_by('-created_at'), evaluated: the rows in the
\* order snap, or the store's failure
QueryAll(snap, fault) ==
    IF fault = "load" THEN [err |-> "StoreUnavailable", rows |-> <<>>]
    ELSE [err |-> "", rows |-> snap]

\* A hit test on the truth value of the cached list.
IsTruthyHit(got) == got.present /\ got.value # <<>>

\* `if cached_properties is not None`
IsCacheHit(got) == got.present

\* get_all_properties.  fault names the call that fails, if any: "get"
\* (cache.get raises), "load" (the query raises while cache.set pickles the
\* queryset), "set" (cache.set raises after the query ran); snap is the
\* order the database returns the rows in.
get_all_properties(entry, snap, t, fault) ==
    IF fault = "get" THEN Raised(entry, "CacheUnavailable")
    ELSE LET got == CacheGet(entry, t)
             q == QueryAll(snap, fault)
         IN
    IF IsCacheHit(got)
    THEN [cache |-> entry, err |-> "", ret |-> got.value, hit |-> TRUE,
          age |-> t - got.setAt, loads |-> 0, none |-> FALSE]
    ELSE IF q.err # "" THEN Raised(entry, q.err)
    ELSE IF fault = "set"
    THEN [Raised(entry, "CacheUnavailable") EXCEPT !.loads = 1]
    ELSE [cache |-> CacheSet(q.rows, t, AllPropertiesTTL), err |-> "",
          ret |-> q.rows, hit |-> FALSE, age |-> 0, loads |-> 1, none |-> FALSE]

\* property_list behind @cache_page(60 * 15): the decorator answers from its
\* own cache entry when it holds one, and otherwise runs the view and stores
\* the response for 15 minutes.  The response is the list of the rows'
\* values(); every field the model keeps is among them.
property_list(entry, snap, t, fault) ==
    IF fault = "get" THEN Raised(entry, "CacheUnavailable")
    ELSE LET got == CacheGet(entry, t)
             q == QueryAll(snap, fault)
         IN
    IF got.present
    THEN [cache |-> entry, err |-> "", ret |-> got.value, hit |-> TRUE,
          age |-> t - got.setAt, loads |-> 0, none |-> FALSE]
    ELSE IF q.err # "" THEN Raised(entry, q.err)
    ELSE IF fault = "set"
    THEN [Raised(entry, "CacheUnavailable") EXCEPT !.loads = 1]
    ELSE [cache |-> CacheSet(q.rows, t, PageTTL), err |-> "", ret |-> q.rows,
          hit |-> FALSE, age |-> 0, loads |-> 1, none |-> FALSE]

\* What requests.get(...) and response.json() give get_country_code:
\*   "error"   a requests.RequestException (timeout, HTTP error status)
\*   "empty"   a body that is empty or not a list
\*   "found"   a list whose first record has 'cca2' = cca2; cca2 = <<>> is a
\*             record without 'cca2'
Lookups ==
    {[kind |-> "error", cca2 |-> <<>>], [kind |-> "empty", cca2 |-> <<>>],
     [kind |-> "found", cca2 |-> <<"e", "s">>], [kind |-> "found", cca2 |-> <<>>]}

\* cache_key = f'country_code_{country_name.lower()}'; the entries of
\* ccCache are indexed by the part after the prefix
CountryKey(country_name) == Lower(country_name)

\* `if cached_code:`
IsCachedCode(got) == got.present /\ got.value # <<>>

\* get_country_code(country_name); entries are the country_code_* entries,
\* lookup what the countries API answers if it is asked
get_country_code(entries, country_name, t, lookup) ==
    LET key == CountryKey(country_name)
        got == CacheGet(entries[key], t)
    IN
    IF IsCachedCode(got)
    THEN [cache |-> entries, err |-> "", ret |-> got.value, hit |-> TRUE,
          age |-> t - got.setAt, loads |-> 0, none |-> FALSE]
    ELSE IF lookup.kind = "found"
    THEN [cache |-> [entries EXCEPT
                        ![key] = CacheSet(Upper(lookup.cca2), t, CountryCodeTTL)],
          err |-> "", ret |-> Upper(lookup.cca2), hit |-> FALSE, age |-> 0,
          loads |-> 1, none |-> FALSE]
    ELSE [cache |-> entries, err |-> "", ret |-> <<>>, hit |-> FALSE, age |-> 0,
          loads |-> 1, none |-> TRUE]

----------------------------------------------------------------------------
(* get_properties_by_filters.  The filters dict is a record with one entry  *)
(* per key: set is whether the key is in the dict, v its value.             *)

Absent(v) == [set |-> FALSE, v |-> v]

Given(v) == [set |-> TRUE, v |-> v]

NoFilters ==
    [category |-> Absent(""), min_price |-> Absent(0), max_price |-> Absent(0),
     bedrooms |-> Absent(0), bathrooms |-> Absent(0), guests |-> Absent(0),
     country |-> Absent(<<>>), favorited |-> Absent(FALSE), search |-> Absent(<<>>)]

\* filters.get(key) is not None
IsNotNone(f) == f.set

\* the truth value of filters.get('category'), a string
TruthyName(f) == f.set /\ f.v # ""

\* the truth value of filters.get(key) for a text key
TruthyText(f) == f.set /\ f.v # <<>>

\* the truth value of filters.get(key) for a number key
TruthyNumber(f) == f.set /\ f.v # 0

\* a strict comparison in place of __gte / __lte
Gt(a, b) == a > b

\* field__gte=b, and field__lte read right to left
Gte(a, b) == a >= b

\* field__icontains=term
IContains(text, term) ==
    \E i \in 0..(Len(text) - Len(term)) :
        SubSeq(Lower(text), i + 1, i + Len(term)) = Lower(term)

\* The rows get_properties_by_filters selects, one
\* `if ...: queryset = queryset.filter(...)` after the other; err is the
\* NameError of `models.Q` (utils.py imports no `models`) when a search term
\* is given.
get_properties_by_filters(rows, f) ==
    LET q1 == IF TruthyName(f.category)
              THEN {p \in rows : p.category = f.category.v} ELSE rows
        q2 == IF IsNotNone(f.min_price)
              THEN {p \in q1 : Gte(p.price_per_night, f.min_price.v)} ELSE q1
        q3 == IF IsNotNone(f.max_price)
              THEN {p \in q2 : Gte(f.max_price.v, p.price_per_night)} ELSE q2
        q4 == IF TruthyNumber(f.bedrooms)
              THEN {p \in q3 : Gte(p.bedrooms, f.bedrooms.v)} ELSE q3
        q5 == IF TruthyNumber(f.bathrooms)
              THEN {p \in q4 : Gte(p.bathrooms, f.bathrooms.v)} ELSE q4
        q6 == IF TruthyNumber(f.guests)
              THEN {p \in q5 : Gte(p.guests, f.guests.v)} ELSE q5
        q7 == IF TruthyText(f.country)
              THEN {p \in q6 : IContains(p.country, f.country.v)} ELSE q6
        q8 == IF IsNotNone(f.favorited)
              THEN {p \in q7 : p.favorited = f.favorited.v} ELSE q7
    IN  IF TruthyText(f.search)
        THEN [err |-> "NameError", rows |-> {}]
        ELSE [err |-> "", rows |-> q8]

----------------------------------------------------------------------------
(* Cache metrics.  info is the reply of redis_client.info(): the counters   *)
(* the code reads, and batches, the number of batches of cache reads the    *)
(* server has counted so far.                                               *)

NoInfo ==
    [keyspace_hits |-> 0, keyspace_misses |-> 0, used_memory |-> 1024,
     used_memory_human |-> "1.00K", evicted_keys |-> 2, expired_keys |-> 3,
     connected_clients |-> 1, batches |-> 0]

\* What the cache connection does when get_redis_cache_metrics asks for INFO:
\*   "ok"               answers
\*   "ConnectionError"  raises redis.ConnectionError
\*   "Exception"        raises any other exception
Reach == {"ok", "ConnectionError", "Exception"}

\* Floating point.  hit_ratio = keyspace_hits / total_requests is the double
\* nearest to the quotient H / T, and round() rounds that double, not H / T.
\* The two roundings differ only when H / T lies exactly halfway between
\* two decimals; then the side the double fell on decides.  The operators
\* below find that side in integer arithmetic, for 0 < H <= T < 2^23 and
\* H < 2^17.

Sign(x) == IF x > 0 THEN 1 ELSE IF x < 0 THEN -1 ELSE 0

\* the least j with H * 2^j >= T: H / T = f * 2^-j with 1 <= f < 2
RECURSIVE Shift(_, _)
Shift(H, T) == IF H >= T THEN 0 ELSE 1 + Shift(2 * H, T)

\* at most eight doublings at a time: a product stays below 2^31
Chunk(s) == IF s >= 8 THEN 8 ELSE s

\* (r * 2^s) mod T
RECURSIVE DoubleMod(_, _, _)
DoubleMod(r, T, s) ==
    IF s = 0 THEN r
    ELSE DoubleMod((2 ^ Chunk(s) * r) % T, T, s - Chunk(s))

\* The 53-bit m nearest to H * 2^s / T (a tie to the even m), from
\* r = (H * 2^s) mod T and floor8 = floor(H * 2^s / T) mod 256:
\* rho = m * T - H * 2^s and low = m mod 256
Nearest(T, j, r, floor8) ==
    LET up == 2 * r > T \/ (2 * r = T /\ floor8 % 2 = 1)
    IN  [j |-> j,
         rho |-> IF up THEN T - r ELSE 0 - r,
         low |-> (floor8 + IF up THEN 1 ELSE 0) % 256]

\* the double nearest to H / T when 2^-j <= H / T < 2^(1-j): s = 52 + j
QuotientAt(H, T, j) ==
    Nearest(T, j, DoubleMod(H % T, T, 52 + j),
            (DoubleMod(H % T, T, 44 + j) * 256) \div T)

\* The double x nearest to H / T:
\*   x = m * 2^-s = (H * 2^s + rho) / (T * 2^s),  low = m mod 256
FloatQuotient(H, T) == QuotientAt(H, T, Shift(H, T))

\* the sign of (H / T as a double) - H / T
QuotientError(H, T) == IF H = 0 THEN 0 ELSE Sign(FloatQuotient(H, T).rho)

\* the bits of the product 100 * m that are rounded away: 100 * m has 60
\* bits when 100 * x >= 2^(7 - j), which a = 25 * H * 2^j - 32 * T decides
ProductBits(a, rho) == IF a > 0 \/ (a = 0 /\ rho >= 0) THEN 7 ELSE 6

\* the sign of (100 * m rounded to 53 bits) * 2^-s - 100 * H / T, the last
\* d bits of the product p100 = 100 * low rounded away, a tie to even
ProductError(T, rho, p100, d) ==
    LET p == p100 % 2 ^ (d + 1)
        low == p % 2 ^ d
        up == low > 2 ^ (d - 1) \/ (low = 2 ^ (d - 1) /\ p \div 2 ^ d = 1)
        adj == IF up THEN 2 ^ d ELSE 0
    IN  Sign(100 * rho + (adj - low) * T)

\* hit_ratio * 100 for the double x = hit_ratio
PercentOf(H, T, x) ==
    ProductError(T, x.rho, 100 * x.low,
                 ProductBits(25 * H * 2 ^ x.j - 32 * T, x.rho))

\* the sign of (hit_ratio * 100 as a double) - 100 * H / T
PercentError(H, T) ==
    IF H = 0 THEN 0 ELSE PercentOf(H, T, FloatQuotient(H, T))

\* A quotient cut off after its last decimal place instead of rounded.
Truncate(n, d, err) == n \div d

\* round() of a double that stands for n / d, to the nearest integer; err is
\* the sign of the double's error, which decides a tie, and a double that is
\* exactly the tie goes to the even side
RoundNearest(n, d, err) ==
    LET q == n \div d
        r == n % d
    IN  IF 2 * r > d THEN q + 1
        ELSE IF 2 * r < d THEN q
        ELSE IF err > 0 THEN q + 1
        ELSE IF err < 0 THEN q
        ELSE IF q % 2 = 1 THEN q + 1 ELSE q

\* the record returned from an except branch
ErrorMetrics(error, t) ==
    [error |-> error, keyspace_hits |-> 0, keyspace_misses |-> 0,
     total_requests |-> 0, hit_ratio |-> 0, hit_ratio_percentage |-> 0,
     timestamp |-> t]

get_redis_cache_metrics(reply, reach, t) ==
    LET keyspace_hits == reply.keyspace_hits
        keyspace_misses == reply.keyspace_misses
        total_requests == keyspace_hits + keyspace_misses
        \* hit_ratio = keyspace_hits / total_requests if total_requests > 0
        \* else 0; round(hit_ratio, 4) in ten-thousandths and
        \* round(hit_ratio * 100, 2) in hundredths
        rounded == IF total_requests > 0
                   THEN RoundNearest(keyspace_hits * 10000, total_requests,
                            QuotientError(keyspace_hits, total_requests))
                   ELSE 0
        percentage == IF total_requests > 0
                      THEN RoundNearest(keyspace_hits * 10000, total_requests,
                               PercentError(keyspace_hits, total_requests))
                      ELSE 0
    IN
    IF reach = "ConnectionError" THEN ErrorMetrics("Redis connection failed", t)
    ELSE IF reach = "Exception" THEN ErrorMetrics("Exception", t)
    ELSE [keyspace_hits |-> keyspace_hits,
          keyspace_misses |-> keyspace_misses,
          total_requests |-> total_requests,
          hit_ratio |-> rounded,
          hit_ratio_percentage |-> percentage,
          used_memory |-> reply.used_memory,
          used_memory_human |-> reply.used_memory_human,
          evicted_keys |-> reply.evicted_keys,
          expired_keys |-> reply.expired_keys,
          connected_clients |-> reply.connected_clients,
          timestamp |-> t]

\* 0.7 in ten-thousandths
LowHitRatio == 7000

\* metrics.get(key, 0)
GetOr0(rec, key) == IF key \in DOMAIN rec THEN rec[key] ELSE 0

\* monitor_cache_performance: the snapshot, whether logger.warning was
\* called, and the KeyError of a key the messages read and the record lacks
monitor_cache_performance(reply, reach, t) ==
    LET rec == get_redis_cache_metrics(reply, reach, t)
        low == GetOr0(rec, "hit_ratio") < LowHitRatio
        memory == GetOr0(rec, "used_memory") > 0 /\ "error" \notin DOMAIN rec
    IN  [rec |-> rec,
         warned |-> low,
         err |-> IF \/ low /\ "hit_ratio_percentage" \notin DOMAIN rec
                    \/ memory /\ "used_memory_human" \notin DOMAIN rec
                 THEN "KeyError" ELSE ""]

\* `metrics`, the record of the last metrics call: op the function called,
\* reach what the connection did, of the INFO reply at the time, rec the
\* snapshot returned, warned whether the low-hit-ratio warning was logged,
\* err the exception that left the call
NoMetrics ==
    [op |-> "none", reach |-> "ok", of |-> NoInfo, rec |-> [timestamp |-> 0],
     warned |-> FALSE, err |-> ""]

----------------------------------------------------------------------------
(* State *)

Readers == {"r1", "r2"}

Writers == {"w1"}

CountryNames == {<<"S", "p">>, <<"s", "P">>}

CountryKeys == {CountryKey(n) : n \in CountryNames}

concVars == <<rpc, rval, wpc>>

filterVars == <<filters, result>>

metricVars == <<info, metrics>>

NotCalled == [called |-> FALSE, err |-> "", rows |-> <<>>]

\* `last`, the record of the most recent completed call:
\*   op, fault   the call and the fault injected into it ("none" for none)
\*   arg         property_id, for update_property_favorite_status;
\*               country_name, for get_country_code
\*   at          the clock when a read was called
\*   err .. loads, commits .. logged   as in the read and write records
\*   hadEntry    cache.get('all_properties') would have hit before the call
\*   prev        the call before it: "write" (a write that committed and
\*               returned with the cache reachable; "write+" when the
\*               snapshot was cached before it), "miss" (a
\*               get_all_properties that missed and populated), "other"
NoCall ==
    [op |-> "none", fault |-> "none", arg |-> 0, at |-> 0, err |-> "", ret |-> <<>>,
     none |-> FALSE, hit |-> FALSE, age |-> 0, loads |-> 0, commits |-> 0, deletes |-> 0,
     logged |-> 0, hadEntry |-> FALSE, prev |-> "other"]

Init ==
    /\ store = {}
    /\ nextId = 1
    /\ cache = NoEntry
    /\ pageCache = NoEntry
    /\ ccCache = [k \in CountryKeys |-> NoEntry]
    /\ now = 0
    /\ last = NoCall
    /\ rpc = [r \in Readers |-> "idle"]
    /\ rval = [r \in Readers |-> <<>>]
    /\ wpc = [w \in Writers |-> "idle"]
    /\ filters = NoFilters
    /\ result = NotCalled
    /\ info = NoInfo
    /\ metrics = NoMetrics

WriteOps ==
    {"create", "update", "delete", "update_property_favorite_status",
     "import_properties_from_csv"}

Summary(call) ==
    IF call.op \in WriteOps /\ call.err = "" /\ call.fault = "none" /\ call.commits > 0
    THEN (IF call.hadEntry THEN "write+" ELSE "write")
    ELSE IF call.op = "get_all_properties" /\ call.err = "" /\ ~call.hit
    THEN "miss"
    ELSE "other"

Call(op, fault) ==
    [op |-> op, fault |-> fault, arg |-> 0, at |-> 0, err |-> "", ret |-> <<>>,
     none |-> FALSE, hit |-> FALSE, age |-> 0, loads |-> 0, commits |-> 0, deletes |-> 0,
     logged |-> 0, hadEntry |-> CacheGet(cache, now).present,
     prev |-> Summary(last)]

WriteCall(op, cacheOk, w) ==
    [Call(op, IF cacheOk THEN "none" ELSE "delete") EXCEPT
        !.err = w.err, !.commits = w.commits, !.deletes = w.deletes,
        !.logged = w.logged]

ReadCall(op, fault, r) ==
    [Call(op, fault) EXCEPT
        !.at = now, !.err = r.err, !.ret = r.ret, !.none = r.none, !.hit = r.hit,
        !.age = r.age, !.loads = r.loads]

----------------------------------------------------------------------------
(* Sequential operations: one call at a time, each call one step.  A write  *)
(* takes the set its cacheOk input is drawn from: {TRUE} when the cache is  *)
(* reachable, BOOLEAN when it may be down for the length of the call.       *)

Expired(t) ==
    /\ cache' = Expire(cache, t)
    /\ pageCache' = Expire(pageCache, t)
    /\ ccCache' = [k \in CountryKeys |-> Expire(ccCache[k], t)]

Tick ==
    /\ (now % HalfDay) + TickStep <= MaxTicks * TickStep
    /\ now' = now + TickStep
    /\ Expired(now')
    /\ UNCHANGED <<store, nextId, last, concVars, filterVars, metricVars>>

TickHalfDay ==
    /\ now \div HalfDay < MaxHalfDays
    /\ now' = now + HalfDay
    /\ Expired(now')
    /\ UNCHANGED <<store, nextId, last, concVars, filterVars, metricVars>>

WrittenFor(op, arg, cacheOk, w) ==
    /\ store' = w.store
    /\ nextId' = w.nextId
    /\ cache' = w.cache
    /\ last' = [WriteCall(op, cacheOk, w) EXCEPT !.arg = arg]
    /\ UNCHANGED <<pageCache, ccCache, now, concVars, filterVars, metricVars>>

Written(op, cacheOk, w) == WrittenFor(op, 0, cacheOk, w)

\* Property.objects.create(...) / Property(...).save()
Create(oks) ==
    \E title \in Titles, price \in Prices, cacheOk \in oks :
        /\ nextId <= MaxProps
        /\ Written("create", cacheOk,
                   Property_save(Begin(store, nextId, cache),
                                 NewProperty(nextId, title, price, now), cacheOk))

\* instance.price_per_night = price; instance.save()
Update(oks) ==
    \E p \in store, price \in Prices, cacheOk \in oks :
        Written("update", cacheOk,
                Property_save(Begin(store, nextId, cache),
                              [p EXCEPT !.price_per_night = price], cacheOk))

\* instance.delete()
Delete(oks) ==
    \E p \in store, cacheOk \in oks :
        Written("delete", cacheOk,
                Property_delete(Begin(store, nextId, cache), p, cacheOk))

\* the ids tried are those the store hands out and one it never does
UpdateFavorite(oks) ==
    \E id \in 1..(MaxProps + 1), favorite \in BOOLEAN, cacheOk \in oks :
        WrittenFor("update_property_favorite_status", id, cacheOk,
                   update_property_favorite_status(Begin(store, nextId, cache),
                                                   id, favorite, cacheOk))

ClearPropertiesCache(oks) ==
    \E cacheOk \in oks :
        Written("clear_properties_cache", cacheOk,
                clear_properties_cache(Begin(store, nextId, cache), cacheOk))

FilesOf(rows) == UNION {[1..n -> rows] : n \in 0..MaxRows}

CsvFiles == FilesOf(CsvRows)

\* fileOk is whether open(file_path) succeeds; when it does not, no row is
\* read.
ImportOf(oks, files) ==
    \E fileOk \in BOOLEAN, cacheOk \in oks :
        \E rows \in IF fileOk THEN files ELSE {<<>>} :
            LET w == import_properties_from_csv(Begin(store, nextId, cache),
                                                fileOk, rows, cacheOk, now)
            IN  /\ w.nextId <= MaxProps + 1
                /\ Written("import_properties_from_csv", cacheOk, w)

Import(oks) == ImportOf(oks, CsvFiles)

ReadFaults == {"none", "get", "load", "set"}

GetAllProperties ==
    \E fault \in ReadFaults, snap \in Snapshots(store) :
        LET r == get_all_properties(cache, snap, now, fault) IN
        /\ cache' = r.cache
        /\ last' = ReadCall("get_all_properties", fault, r)
        /\ UNCHANGED <<store, nextId, pageCache, ccCache, now, concVars, filterVars, metricVars>>

PropertyList ==
    \E fault \in ReadFaults, snap \in Snapshots(store) :
        LET r == property_list(pageCache, snap, now, fault) IN
        /\ pageCache' = r.cache
        /\ last' = ReadCall("property_list", fault, r)
        /\ UNCHANGED <<store, nextId, cache, ccCache, now, concVars, filterVars, metricVars>>

GetCountryCode ==
    \E country_name \in CountryNames, lookup \in Lookups :
        LET r == get_country_code(ccCache, country_name, now, lookup) IN
        /\ ccCache' = r.cache
        /\ last' = [ReadCall("get_country_code", "none", r) EXCEPT
                        !.arg = country_name]
        /\ UNCHANGED <<store, nextId, cache, pageCache, now, concVars, filterVars, metricVars>>

\* The catalog with the cache reachable during every write.
Next ==
    \/ Tick
    \/ Create({TRUE})
    \/ Update({TRUE})
    \/ Delete({TRUE})
    \/ UpdateFavorite({TRUE})
    \/ Import({TRUE})
    \/ GetAllProperties

Spec == Init /\ [][Next]_vars

\* The catalog with the cache possibly unreachable during a write.
NextFault ==
    \/ Create(BOOLEAN)
    \/ Update(BOOLEAN)
    \/ Delete(BOOLEAN)
    \/ UpdateFavorite(BOOLEAN)
    \/ Import(BOOLEAN)
    \/ GetAllProperties

SpecFault == Init /\ [][NextFault]_vars

\* The writes and explicit invalidations, with the snapshot read that fills
\* the cache between them.
NextClear ==
    \/ Create({TRUE})
    \/ Update({TRUE})
    \/ Delete({TRUE})
    \/ UpdateFavorite({TRUE})
    \/ ClearPropertiesCache({TRUE})
    \/ GetAllProperties

SpecClear == Init /\ [][NextClear]_vars

\* The catalog fed by CSV files whose rows may carry a price of 0 or none.
NextImport ==
    \/ ImportOf({TRUE}, FilesOf(CsvRows \cup ZeroPriceRows \cup BlankPriceRows))
    \/ Update({TRUE})
    \/ Delete({TRUE})
    \/ GetAllProperties

SpecImport == Init /\ [][NextImport]_vars

\* The cached reads over a long stretch of time, on a catalog that is
\* empty or holds one row.
TTLStores == {{}, {NewProperty(1, <<"a">>, 100, 0)}}

InitTTL ==
    /\ store \in TTLStores
    /\ nextId = Cardinality(store) + 1
    /\ cache = NoEntry
    /\ pageCache = NoEntry
    /\ ccCache = [k \in CountryKeys |-> NoEntry]
    /\ now = 0
    /\ last = NoCall
    /\ rpc = [r \in Readers |-> "idle"]
    /\ rval = [r \in Readers |-> <<>>]
    /\ wpc = [w \in Writers |-> "idle"]
    /\ filters = NoFilters
    /\ result = NotCalled
    /\ info = NoInfo
    /\ metrics = NoMetrics

NextTTL ==
    \/ Tick
    \/ TickHalfDay
    \/ GetAllProperties
    \/ GetCountryCode

SpecTTL == InitTTL /\ [][NextTTL]_vars

\* The list view and the writes it should follow.
NextView ==
    \/ Tick
    \/ Create({TRUE})
    \/ Update({TRUE})
    \/ Delete({TRUE})
    \/ PropertyList

SpecView == Init /\ [][NextView]_vars

----------------------------------------------------------------------------
(* get_properties_by_filters on a fixed catalog *)

FilterRow(id, category, price, bedrooms, bathrooms, guests, country, favorited, t) ==
    [NewProperty(id, <<"a">>, price, t) EXCEPT
        !.category = category, !.bedrooms = bedrooms, !.bathrooms = bathrooms,
        !.guests = guests, !.country = country, !.favorited = favorited]

FilterRows ==
    {FilterRow(1, "house", 100, 1, 1, 2, <<"F", "r">>, FALSE, 0),
     FilterRow(2, "villa", 300, 3, 2, 4, <<"S", "p">>, TRUE, 0),
     FilterRow(3, "cottage", 150, 0, 1, 1, <<"s", "p">>, FALSE, 1800)}

FilterStores == {rows \in SUBSET FilterRows : Cardinality(rows) <= MaxFilterProps}

FilterKeys ==
    {"category", "min_price", "max_price", "bedrooms", "bathrooms", "guests",
     "country", "favorited", "search"}

FilterSpecs ==
    {f \in [category : {Absent("")} \cup {Given(v) : v \in {"", "house", "villa"}},
            min_price : {Absent(0)} \cup {Given(v) : v \in {0, 150}},
            max_price : {Absent(0)} \cup {Given(v) : v \in {100}},
            bedrooms : {Absent(0)} \cup {Given(v) : v \in {0, 2}},
            bathrooms : {Absent(0)} \cup {Given(v) : v \in {0, 2}},
            guests : {Absent(0)} \cup {Given(v) : v \in {0, 3}},
            country : {Absent(<<>>)} \cup {Given(v) : v \in {<<>>, <<"P">>}},
            favorited : {Absent(FALSE)} \cup {Given(v) : v \in BOOLEAN},
            search : {Absent(<<>>)} \cup {Given(v) : v \in {<<>>, <<"S", "p">>}}] :
        Cardinality({k \in FilterKeys : f[k].set}) <= MaxActive}

InitFilter ==
    /\ store \in FilterStores
    /\ nextId = 4
    /\ cache = NoEntry
    /\ pageCache = NoEntry
    /\ ccCache = [k \in CountryKeys |-> NoEntry]
    /\ now = HalfDay
    /\ last = NoCall
    /\ rpc = [r \in Readers |-> "idle"]
    /\ rval = [r \in Readers |-> <<>>]
    /\ wpc = [w \in Writers |-> "idle"]
    /\ filters \in FilterSpecs
    /\ result = NotCalled
    /\ info = NoInfo
    /\ metrics = NoMetrics

\* get_properties_by_filters(filters), the queryset evaluated in the order
\* the database gives
ApplyFilter ==
    LET r == get_properties_by_filters(store, filters) IN
    /\ \E rows \in Snapshots(r.rows) :
           result' = [called |-> TRUE, err |-> r.err, rows |-> rows]
    /\ UNCHANGED <<store, nextId, cache, pageCache, ccCache, now, last, concVars,
                   filters, metricVars>>

NextFilter == ApplyFilter

SpecFilter == InitFilter /\ [][NextFilter]_vars

----------------------------------------------------------------------------
(* Cache metrics on a server whose counters grow *)

HitBatches == {1, 7, 1402, 13999}

MissBatches == {3, 31, 159, 601, 6001}

\* the server counts a batch of cache reads that found their key
KeyspaceHits ==
    \E n \in HitBatches :
        /\ info.batches < MaxTraffic
        /\ info' = [info EXCEPT !.keyspace_hits = @ + n, !.batches = @ + 1]
        /\ UNCHANGED <<store, nextId, cache, pageCache, ccCache, now, last,
                       concVars, filterVars, metrics>>

\* the server counts a batch of cache reads that did not
KeyspaceMisses ==
    \E n \in MissBatches :
        /\ info.batches < MaxTraffic
        /\ info' = [info EXCEPT !.keyspace_misses = @ + n, !.batches = @ + 1]
        /\ UNCHANGED <<store, nextId, cache, pageCache, ccCache, now, last,
                       concVars, filterVars, metrics>>

GetRedisCacheMetrics ==
    \E reach \in Reach :
        /\ metrics' = [op |-> "get_redis_cache_metrics", reach |-> reach,
                       of |-> info,
                       rec |-> get_redis_cache_metrics(info, reach, now),
                       warned |-> FALSE, err |-> ""]
        /\ UNCHANGED <<store, nextId, cache, pageCache, ccCache, now, last,
                       concVars, filterVars, info>>

MonitorCachePerformance ==
    \E reach \in Reach :
        LET r == monitor_cache_performance(info, reach, now) IN
        /\ metrics' = [op |-> "monitor_cache_performance", reach |-> reach,
                       of |-> info, rec |-> r.rec, warned |-> r.warned,
                       err |-> r.err]
        /\ UNCHANGED <<store, nextId, cache, pageCache, ccCache, now, last,
                       concVars, filterVars, info>>

NextMetrics ==
    \/ KeyspaceHits
    \/ KeyspaceMisses
    \/ GetRedisCacheMetrics
    \/ MonitorCachePerformance

SpecMetrics == Init /\ [][NextMetrics]_vars

----------------------------------------------------------------------------
(* Concurrent callers.  Each cache get, store load, cache set, store commit *)
(* and cache delete is one step; readers and writers interleave freely.     *)
(*   rpc[r]   "idle", "missed" (cache.get returned None), "loaded" (the     *)
(*            query ran, cache.set not yet)                                 *)
(*   wpc[w]   "idle", "saved" (row written, post_save not yet run),         *)
(*            "deleted" (row removed, post_delete not yet run)              *)

\* cached_properties = cache.get('all_properties'), and the return on a hit
ReadGet(r) ==
    /\ rpc[r] = "idle"
    /\ rpc' = [rpc EXCEPT ![r] = IF IsCacheHit(CacheGet(cache, now))
                                 THEN "idle" ELSE "missed"]
    /\ rval' = [rval EXCEPT ![r] = CacheGet(cache, now).value]
    /\ UNCHANGED <<store, nextId, cache, pageCache, ccCache, now, last, wpc,
                   filterVars, metricVars>>

\* properties = Property.objects.all().order_by('-created_at'), evaluated
ReadLoad(r) ==
    /\ rpc[r] = "missed"
    /\ \E snap \in Snapshots(store) :
           rval' = [rval EXCEPT ![r] = QueryAll(snap, "none").rows]
    /\ rpc' = [rpc EXCEPT ![r] = "loaded"]
    /\ UNCHANGED <<store, nextId, cache, pageCache, ccCache, now, last, wpc,
                   filterVars, metricVars>>

\* cache.set('all_properties', properties, 3600); return properties
ReadSet(r) ==
    /\ rpc[r] = "loaded"
    /\ cache' = CacheSet(rval[r], now, AllPropertiesTTL)
    /\ rpc' = [rpc EXCEPT ![r] = "idle"]
    /\ UNCHANGED <<store, nextId, pageCache, ccCache, now, last, rval, wpc,
                   filterVars, metricVars>>

\* save() writes the row: a new Property, or a new price for an existing one
WriteSave(w) ==
    /\ wpc[w] = "idle"
    /\ \/ \E title \in Titles, price \in Prices :
              /\ nextId <= MaxProps
              /\ store' = store \cup {NewProperty(nextId, title, price, now)}
              /\ nextId' = nextId + 1
       \/ \E p \in store, price \in Prices :
              /\ store' = (store \ {p}) \cup {[p EXCEPT !.price_per_night = price]}
              /\ nextId' = nextId
    /\ wpc' = [wpc EXCEPT ![w] = "saved"]
    /\ UNCHANGED <<cache, pageCache, ccCache, now, last, rpc, rval, filterVars, metricVars>>

\* delete() removes the row
WriteDelete(w) ==
    /\ wpc[w] = "idle"
    /\ \E p \in store : store' = store \ {p}
    /\ wpc' = [wpc EXCEPT ![w] = "deleted"]
    /\ UNCHANGED <<nextId, cache, pageCache, ccCache, now, last, rpc, rval,
                   filterVars, metricVars>>

\* the post_save / post_delete handler runs, and the write returns
WriteInvalidate(w) ==
    /\ wpc[w] \in {"saved", "deleted"}
    /\ cache' = IF wpc[w] = "saved"
                THEN clear_properties_cache_on_save(
                         Begin(store, nextId, cache), TRUE).cache
                ELSE clear_properties_cache_on_delete(
                         Begin(store, nextId, cache), TRUE).cache
    /\ wpc' = [wpc EXCEPT ![w] = "idle"]
    /\ UNCHANGED <<store, nextId, pageCache, ccCache, now, last, rpc, rval,
                   filterVars, metricVars>>

NextConc ==
    \/ \E r \in Readers : ReadGet(r)
    \/ \E r \in Readers : ReadLoad(r)
    \/ \E r \in Readers : ReadSet(r)
    \/ \E w \in Writers : WriteSave(w)
    \/ \E w \in Writers : WriteDelete(w)
    \/ \E w \in Writers : WriteInvalidate(w)

SpecConc == Init /\ [][NextConc]_vars

----------------------------------------------------------------------------
(* Claims *)

AfterWrite(call) == call.prev \in {"write", "write+"}

\* C1: a get_all_properties() issued right after a completed Property write
\* (create, update, delete, update_property_favorite_status, import), with
\* the cache reachable, returns the store's rows as they are after the
\* write, whatever the cache held before the write.
C1_PostWriteVisibility ==
    (last.op = "get_all_properties" /\ AfterWrite(last) /\ last.fault = "none")
        => (last.err = "" /\ last.ret \in Snapshots(store))

C1_Witness ==
    /\ last.op = "get_all_properties"
    /\ last.prev = "write+"
    /\ last.fault = "none"
    /\ \E i \in 1..Len(last.ret) : last.ret[i].price_per_night = 150

\* C2 as stated: under any interleaving of readers and writers, once every
\* write has completed (commit and invalidation), no unexpired
\* 'all_properties' entry predates a completed write: the cached snapshot is
\* the store's content.
C2_NoStaleEntry ==
    ((\A w \in Writers : wpc[w] = "idle") /\ CacheGet(cache, now).present)
        => cache.value \in Snapshots(store)

\* C3 as stated: a property_list response issued right after a completed
\* Property write is freshly loaded or reflects that write.
C3_ListFollowsWrites ==
    (last.op = "property_list" /\ AfterWrite(last) /\ last.fault = "none")
        => (last.err = "" /\ last.ret \in Snapshots(store))

\* C4 as stated: every write path deletes 'all_properties' exactly once per
\* committed write.
C4_ExactlyOnce ==
    (last.op \in WriteOps /\ last.commits > 0) => last.deletes = last.commits

\* C4, amended: before a write call ends, cache.delete('all_properties') has
\* been issued once per committed row by the save/delete handlers, once more
\* by update_property_favorite_status after its save, and once more by
\* import_properties_from_csv after its rows.
C4_AtLeastOnce ==
    /\ last.op \in {"create", "update", "delete"}
         => (last.commits = 1 /\ last.deletes = 1)
    /\ last.op = "update_property_favorite_status"
         => \/ (last.err = "ValueError" /\ last.commits = 0 /\ last.deletes = 0)
            \/ (last.commits = 1 /\ last.deletes = 2)
    /\ last.op = "import_properties_from_csv"
         => last.deletes = last.commits + 1

C4_Witness ==
    /\ last.op = "update_property_favorite_status"
    /\ last.commits = 1
    /\ last.deletes = 2

\* C5 as stated: a write whose invalidation finds the cache unreachable
\* still returns its normal result.
C5_InvalidationNeverFailsWrite ==
    (last.op \in WriteOps /\ last.fault = "delete" /\ last.commits > 0)
        => last.err = ""

\* C6: after a get_all_properties() that missed, the next
\* get_all_properties() within the TTL and with no write in between returns
\* the same snapshot from the cache without querying the store, an empty
\* snapshot included.
C6_PopulatedThenHit ==
    [][(/\ Summary(last) = "miss"
        /\ now' = now
        /\ last'.op = "get_all_properties"
        /\ last'.fault # "get"
        /\ now < last.at + AllPropertiesTTL)
       => (/\ last'.err = ""
           /\ last'.hit
           /\ last'.loads = 0
           /\ last'.ret = last.ret)]_vars

C6_Witness ==
    /\ last.op = "get_all_properties"
    /\ last.prev = "miss"
    /\ last.hit
    /\ last.age > 0
    /\ last.ret = <<>>

\* C7: a read returns a cached entry only within its TTL of the time the
\* entry was set (3600 s for 'all_properties', 86400 s for a country code),
\* and the expiry of an entry moves only when its value is loaded again.
C7_TTLBound ==
    /\ []((last.op = "get_all_properties" /\ last.hit) => last.age <= 3600)
    /\ []((last.op = "get_country_code" /\ last.hit) => last.age <= 86400)
    /\ [](cache.present => cache.expires <= cache.setAt + 3600)
    /\ [](\A k \in CountryKeys :
             ccCache[k].present => ccCache[k].expires <= ccCache[k].setAt + 86400)
    /\ [][(cache'.present /\ cache'.expires # cache.expires)
             => (last'.op = "get_all_properties" /\ last'.loads = 1
                 /\ cache'.value = last'.ret)]_vars
    /\ [][\A k \in CountryKeys :
             (ccCache'[k].present /\ ccCache'[k].expires # ccCache[k].expires)
                 => (last'.op = "get_country_code" /\ last'.loads = 1
                     /\ ccCache'[k].value = last'.ret)]_vars

C7_Witness ==
    /\ last.op = "get_country_code"
    /\ last.hit
    /\ last.age > 3600
    /\ cache.present
    /\ now > cache.setAt

\* C8 as stated: with the cache unreachable for get or set,
\* get_all_properties() returns the snapshot loaded from the store.
C8_ReadFallsBack ==
    (last.op = "get_all_properties" /\ last.fault \in {"get", "set"} /\ ~last.hadEntry)
        => (last.err = "" /\ last.ret \in Snapshots(store))

\* C9: when the store cannot serve the load of a get_all_properties() that
\* missed, the failure reaches the caller, nothing is returned, and
\* 'all_properties' is absent afterwards as it was before.
C9_LoaderFailure ==
    (last.op = "get_all_properties" /\ last.fault = "load" /\ ~last.hadEntry)
        => (last.err = "StoreUnavailable" /\ last.ret = <<>> /\ ~cache.present)

C9_Witness ==
    /\ last.op = "get_all_properties"
    /\ last.fault = "load"
    /\ ~last.hadEntry
    /\ last.err = "StoreUnavailable"
    /\ store # {}

\* What the filter keys mean: category exact, price bounds inclusive,
\* bedrooms/bathrooms/guests inclusive minimum, country case-insensitive
\* substring, favorited exact.
Satisfies(p, key, v) ==
    CASE key = "category" -> p.category = v
      [] key = "min_price" -> p.price_per_night >= v
      [] key = "max_price" -> p.price_per_night <= v
      [] key = "bedrooms" -> p.bedrooms >= v
      [] key = "bathrooms" -> p.bathrooms >= v
      [] key = "guests" -> p.guests >= v
      [] key = "country" ->
            \E i \in 1..(Len(p.country) + 1), j \in 0..Len(p.country) :
                Lower(SubSeq(p.country, i, j)) = Lower(v)
      [] key = "favorited" -> p.favorited = v

PlainKeys == FilterKeys \ {"search"}

\* a key whose value is the empty string or zero
IsBlank(key, v) ==
    \/ key = "category" /\ v = ""
    \/ key = "country" /\ v = <<>>
    \/ key \in {"bedrooms", "bathrooms", "guests"} /\ v = 0

\* C10 as stated: without a search term, get_properties_by_filters returns
\* exactly the rows that satisfy every key present in the filters dict; a
\* key that is present always constrains.
C10_PresentAlwaysApplies ==
    (result.called /\ ~filters.search.set)
        => /\ result.err = ""
           /\ Range(result.rows) =
                {p \in store : \A key \in PlainKeys :
                    filters[key].set => Satisfies(p, key, filters[key].v)}

\* C10, amended: without a search term, get_properties_by_filters returns
\* exactly the rows that satisfy every key that is present and not blank; an
\* absent key constrains nothing, and neither does an empty category or
\* country nor a zero bedrooms, bathrooms or guests; min_price, max_price
\* and favorited constrain whenever present, with 0 and False too.
C10_ActiveKeysApply ==
    (result.called /\ ~filters.search.set)
        => /\ result.err = ""
           /\ Len(result.rows) = Cardinality(Range(result.rows))
           /\ Range(result.rows) =
                {p \in store : \A key \in PlainKeys :
                    (filters[key].set /\ ~IsBlank(key, filters[key].v))
                        => Satisfies(p, key, filters[key].v)}

C10_Witness ==
    /\ result.called
    /\ filters.min_price.set
    /\ filters.min_price.v = 150
    /\ filters.category.set
    /\ filters.category.v = ""
    /\ Len(result.rows) = 2
    /\ Cardinality(store) = 2

\* a row one of whose title, description or country contains the term,
\* letter case ignored
SearchHit(p, term) ==
    \E text \in {p.title, p.description, p.country} :
        \E i \in 1..(Len(text) + 1), j \in 0..Len(text) :
            Lower(SubSeq(text, i, j)) = Lower(term)

\* C11 as stated: with a non-empty search term get_properties_by_filters
\* returns a result, not an error: exactly the rows whose title, description
\* or country contains the term, letter case ignored, and that satisfy every
\* other active key.
C11_SearchReturnsMatches ==
    (result.called /\ filters.search.set /\ filters.search.v # <<>>)
        => /\ result.err = ""
           /\ Range(result.rows) =
                {p \in store :
                    /\ SearchHit(p, filters.search.v)
                    /\ \A key \in PlainKeys :
                          (filters[key].set /\ ~IsBlank(key, filters[key].v))
                              => Satisfies(p, key, filters[key].v)}

\* C12 as stated: the sequence get_properties_by_filters returns is ordered
\* by created_at descending, and rows of equal created_at by id descending.
C12_TieBreakById ==
    (result.called /\ result.err = "")
        => \A i, j \in 1..Len(result.rows) :
              i < j => \/ result.rows[i].created_at > result.rows[j].created_at
                       \/ /\ result.rows[i].created_at = result.rows[j].created_at
                          /\ result.rows[i].id > result.rows[j].id

\* C13 as stated: two calls of get_properties_by_filters with the same
\* filters and no write between them return the same sequence.
C13_RepeatedCallsAgree ==
    [][(/\ result.called
        /\ result.err = ""
        /\ result'.called
        /\ filters' = filters
        /\ store' = store)
       => result'.rows = result.rows]_vars

\* the counters a metrics record carries
MetricCounters ==
    {"keyspace_hits", "keyspace_misses", "total_requests", "hit_ratio",
     "evicted_keys", "expired_keys", "used_memory", "connected_clients"}

\* a call that got the INFO reply: its hits H and misses M
Answered == metrics.op # "none" /\ metrics.reach = "ok"

\* r ten-thousandths is H / T to the nearest ten-thousandth
IsNearest(r, H, T) ==
    /\ 2 * (r * T - 10000 * H) <= T
    /\ 2 * (10000 * H - r * T) <= T

\* C14 as stated: total_requests = H + M, hit_ratio is H / (H + M) at four
\* decimals, 0 when H + M = 0, and 0 only when H + M = 0.
C14_ZeroIffNoRequests ==
    Answered =>
        LET H == metrics.of.keyspace_hits
            M == metrics.of.keyspace_misses
        IN  /\ metrics.err = ""
            /\ metrics.rec.total_requests = H + M
            /\ H + M > 0 => IsNearest(metrics.rec.hit_ratio, H, H + M)
            /\ metrics.rec.hit_ratio = 0 <=> H + M = 0

\* C14, amended: total_requests = H + M; hit_ratio is H / (H + M) rounded
\* to four decimals when H + M > 0 and 0, with no fault, when H + M = 0; it
\* is 0 exactly when H + M = 0 or H / (H + M) rounds to 0.0000, which H = 0
\* with M > 0 does.
C14_HitRatioRounded ==
    Answered =>
        LET H == metrics.of.keyspace_hits
            M == metrics.of.keyspace_misses
        IN  /\ metrics.err = ""
            /\ metrics.rec.keyspace_hits = H
            /\ metrics.rec.keyspace_misses = M
            /\ metrics.rec.total_requests = H + M
            /\ H + M > 0 => IsNearest(metrics.rec.hit_ratio, H, H + M)
            /\ H + M = 0 => metrics.rec.hit_ratio = 0
            /\ H = 0 => metrics.rec.hit_ratio = 0
            /\ metrics.rec.hit_ratio = 0 <=> (H + M = 0 \/ 20000 * H < H + M)

C14_Witness ==
    /\ metrics.op = "get_redis_cache_metrics"
    /\ metrics.reach = "ok"
    /\ metrics.of.keyspace_hits = 1402
    /\ metrics.of.keyspace_misses = 601
    /\ metrics.rec.total_requests = 2003
    /\ metrics.rec.hit_ratio = 7000

\* C15 as stated: with the cache connection unavailable the metrics call
\* raises nothing and returns a record with an error indicator in which
\* every counter is present and zero.
C15_ErrorRecordZeroed ==
    (metrics.op # "none" /\ metrics.reach # "ok")
        => /\ metrics.err = ""
           /\ "error" \in DOMAIN metrics.rec
           /\ \A key \in MetricCounters :
                 key \in DOMAIN metrics.rec /\ metrics.rec[key] = 0

\* C17 as stated: monitor_cache_performance returns the snapshot without
\* raising, and logs the warning exactly when the hit ratio H / (H + M) of
\* the snapshot (0 when H + M = 0 and in the error record) is below 0.70.
C17_WarnsBelowThreshold ==
    metrics.op = "monitor_cache_performance"
        => LET H == metrics.of.keyspace_hits
               M == metrics.of.keyspace_misses
           IN  /\ metrics.err = ""
               /\ metrics.warned <=>
                    (metrics.reach # "ok" \/ H + M = 0 \/ 10 * H < 7 * (H + M))

\* C16 as stated: no write path lets a row into the Catalog Store that
\* validate_property_data rejects: every stored Property has
\* price_per_night > 0, non-negative bedrooms, bathrooms and guests, and a
\* category of the fixed set.
C16_StoredRowsValid ==
    \A p \in store :
        /\ validate_property_data(p) = {}
        /\ p.price_per_night > 0
        /\ p.bedrooms >= 0 /\ p.bathrooms >= 0 /\ p.guests >= 0
        /\ p.category \in PROPERTY_CATEGORIES

\* a call that issued cache.delete('all_properties') with the cache reachable
Invalidates(call) == call.deletes > 0 /\ call.fault = "none"

\* C18: an invalidation that finds 'all_properties' absent completes
\* normally and leaves it absent; so does the second of two invalidations
\* in a row, which leaves the cache as the first one left it.
C18_DeleteIsIdempotent ==
    /\ []((Invalidates(last) /\ ~last.hadEntry)
            => (last.err = "" /\ cache = NoEntry))
    /\ [][(/\ Invalidates(last)
           /\ last.err = ""
           /\ now' = now
           /\ Invalidates(last'))
          => (/\ last'.err = ""
              /\ ~last'.hadEntry
              /\ cache = NoEntry
              /\ cache' = cache)]_vars

C18_Witness ==
    /\ last.op = "clear_properties_cache"
    /\ last.prev = "write+"
    /\ ~last.hadEntry
    /\ last.deletes = 1
    /\ last.err = ""
    /\ cache = NoEntry

\* C19: update_property_favorite_status with an id no Property has raises
\* ValueError, writes no row and issues no cache.delete: the store and the
\* 'all_properties' entry are after the call what they were before it.
C19_NotFoundHasNoEffect ==
    [][(/\ last'.op = "update_property_favorite_status"
        /\ now' = now
        /\ \A p \in store : p.id # last'.arg)
       => (/\ last'.err = "ValueError"
           /\ last'.commits = 0
           /\ last'.deletes = 0
           /\ store' = store
           /\ nextId' = nextId
           /\ cache' = cache)]_vars

C19_Witness ==
    /\ last.op = "update_property_favorite_status"
    /\ last.err = "ValueError"
    /\ store # {}
    /\ \A p \in store : p.id # last.arg
    /\ last.hadEntry
    /\ cache.present
    /\ cache.value # <<>>

\* C20 as stated: while a value stored under 'country_code_<name.lower()>'
\* has not expired, get_country_code for a name equal to it up to letter
\* case returns that value and sends no request, the empty code included.
C20_StoredCodeIsServed ==
    [][(/\ last'.op = "get_country_code"
        /\ now' = now
        /\ CacheGet(ccCache[Lower(last'.arg)], now).present)
       => (/\ last'.hit
           /\ last'.loads = 0
           /\ ~last'.none
           /\ last'.ret = ccCache[Lower(last'.arg)].value)]_vars

====
